---- MODULE Spec2Model ----
(***************************************************************************)
(* Model of the Federal Register ingestion pipeline of opengov:            *)
(*   app/workers/scraper.py           fetch_and_process, _insert_batch     *)
(*   app/services/federal_register.py fetch_recent_documents               *)
(*   app/services/grok.py, grok_mock.py  summarize_text                    *)
(*   app/main.py, app/routers/admin.py   the two triggers                  *)
(*                                                                         *)
(* A run of fetch_and_process is a coroutine; the model takes one step per *)
(* page request of the fetch, one step per fetched document, one step for  *)
(* the final flush, one for the rollback of the fatal handler and one for  *)
(* the finally clause.  A database transaction (_insert_batch: flush, link,*)
(* commit) is taken as one atomic step: it either persists the whole batch *)
(* or nothing.                                                             *)
(***************************************************************************)
EXTENDS Integers, Sequences, FiniteSets, TLC

\* ---------------------------------------------------------------- bounds
MaxInvocations == 2      \* budget of fetch_and_process in one behaviour
MaxFetched == 2          \* length of a page of the small source API
MaxBatchDocs == 120      \* documents the large source API holds at most

MaxStates == 2           \* login requests in one behaviour
MaxCallbacks == 2        \* callback requests in one behaviour
MaxCalls == 3            \* calls of the like and bookmark services in one behaviour

\* ------------------------------------------------------ program constants
BATCH_SIZE == 50
FEDERAL_REGISTER_PER_PAGE == 100
FEDERAL_REGISTER_MAX_PAGES == 2
FETCH_STOP_AFTER_ATTEMPT == 3

\* The two triggers of the pipeline: the interval job and POST /api/admin/scrape.
Runs == {"scheduler", "manual"}

Other(r) == IF r = "scheduler" THEN "manual" ELSE "scheduler"

\* A fetched document, reduced to the fields the pipeline reads.  `fault` says
\* where the processing of this document raises:
\*   "none"     nowhere
\*   "title"    title is null: title[:60] raises TypeError (scraper.py:91)
\*   "text"     abstract is empty and full_text is null: [:1000] raises (scraper.py:129)
\*   "not_dict" the entry is no JSON object: doc.get raises (scraper.py:87) and
\*              again inside the except handler (scraper.py:167)
Faults == {"none", "title", "text", "not_dict"}

Doc(n, u, f) == [document_number |-> n, html_url |-> u, fault |-> f]

\* ------------------------------------------------------------- variables
VARIABLES
    run,                       \* per trigger: the locals of its current call
    federal_register_entries,  \* committed rows of FederalRegister
    articles,                  \* committed rows of Article
    scraper_runs,              \* committed rows of ScraperRun
    budget,                    \* calls of fetch_and_process still to be made
    source,                    \* the documents of the source API, in its order
    db_faults,                 \* whether the database can fail by itself (locked, I/O error)
    summ,                      \* one call of summarize_text: its inputs and its result
    log,                       \* history: one entry per finished call
    likes,                     \* committed rows of Like
    bookmarks,                 \* committed rows of Bookmark
    call,                      \* history: the last call of the like and bookmark services
    service_calls,             \* history: how many such calls were made
    toggles,                   \* history: per (user, article), the toggle_bookmark calls
    _oauth_states,             \* routers/oauth.py: the state store
    _oauth_state_cache,        \* routers/auth.py: the state cache
    callbacks,                 \* the OAuth callbacks being handled
    now,                       \* the clock, in seconds
    issued,                    \* history: the states the login endpoints issued
    oauth_log,                 \* history: one entry per callback that was answered
    _token_cache,              \* services/auth.py: validated token -> user id
    token_call,                \* history: the last call of get_user_from_token
    batch_call                 \* one call of _insert_batch: its inputs and its result

pipeline_vars ==
    <<run, federal_register_entries, articles, scraper_runs, budget, source, db_faults, summ, log>>

social_vars == <<likes, bookmarks, call, service_calls, toggles>>

oauth_vars == <<_oauth_states, _oauth_state_cache, callbacks, now, issued, oauth_log>>

auth_vars == <<_token_cache, token_call>>

writer_vars == <<batch_call>>

vars == <<pipeline_vars, social_vars, oauth_vars, auth_vars, writer_vars>>

IdleRun ==
    [pc |-> "idle",
     \* fetch_recent_documents
     documents |-> <<>>, page |-> 1, page_count |-> 0,
     attempts |-> 0, requests |-> 0, fetch_error |-> "none",
     \* fetch_and_process
     i |-> 0, processed_count |-> 0, skipped_count |-> 0, error_count |-> 0,
     new_fed_entries |-> <<>>, new_articles |-> <<>>,
     session_open |-> FALSE, needs_rollback |-> FALSE,
     fatal |-> FALSE, raised |-> FALSE,
     \* history of this call
     flushes |-> <<>>, summarized |-> <<>>, skipped |-> <<>>, overlapped |-> FALSE, env_failed |-> FALSE,
     fed_before |-> {}, art_before |-> {}]

\* ------------------------------------------------------- the two tables

\* The table without its unique constraint.
UniqueDocumentNumberMissing(table, entries) == TRUE

\* unique=True on FederalRegister.document_number: the INSERT of `entries`
\* is rejected when a document_number is already stored or occurs twice.
UniqueDocumentNumber(table, entries) ==
    /\ \A k \in 1..Len(entries) :
          \A row \in table : row.document_number # entries[k].document_number
    /\ \A j, k \in 1..Len(entries) :
          j # k => entries[j].document_number # entries[k].document_number

\* unique=True on Article.source_url.
UniqueSourceUrl(table, arts) ==
    /\ \A k \in 1..Len(arts) :
          \A row \in table : row.source_url # arts[k].source_url
    /\ \A j, k \in 1..Len(arts) :
          j # k => arts[j].source_url # arts[k].source_url

\* Integer primary keys: rows are never deleted, the next id is count + 1.
NextId(table) == Cardinality(table) + 1

Min(a, b) == IF a < b THEN a ELSE b

\* An insert that replaces the stored rows.
replace_rows(table, rows) == rows

\* db.add_all(...) and the commit: the rows join those already stored.
insert_rows(table, rows) == table \cup rows

\* A list that is left as it is.
left_as_is(list) == list

\* new_fed_entries.clear(), new_articles.clear()
clear(list) == <<>>

\* _insert_batch(db, new_fed_entries, new_articles).  `env_ok` is FALSE when
\* the database fails for a reason outside the program (locked, I/O error).
\* Result: whether it raised, the tables, the two lists, the session state
\* and, for the history, the flush it performed.
_insert_batch(sess_bad, fed_tab, art_tab, fed, art, env_ok) ==
    LET base     == NextId(fed_tab) - 1
        abase    == NextId(art_tab) - 1
        fed_rows == {[id |-> base + k,
                      document_number |-> fed[k].document_number,
                      raw_data |-> fed[k].raw_data] : k \in 1..Len(fed)}
        \* zip(new_fed_entries, new_articles): linked by position
        art_rows == {[id |-> abase + k,
                      federal_register_id |-> base + k,
                      source_url |-> art[k].source_url] : k \in 1..Min(Len(fed), Len(art))}
        same     == [raised |-> FALSE, fed_tab |-> fed_tab, art_tab |-> art_tab,
                     fed |-> fed, art |-> art, sess_bad |-> sess_bad, flush |-> <<>>]
    IN  IF fed = <<>>
        THEN same                                                  \* line 21
        ELSE IF sess_bad
        THEN [same EXCEPT !.raised = TRUE,                         \* PendingRollbackError
                          !.flush = <<[n |-> Len(fed), ok |-> FALSE]>>]
        ELSE IF ~ env_ok
                \/ ~ UniqueDocumentNumber(fed_tab, fed)            \* db.flush(), line 29
                \/ ~ UniqueSourceUrl(art_tab, art)                 \* db.commit(), line 36
        THEN [same EXCEPT !.raised = TRUE, !.sess_bad = TRUE,
                          !.flush = <<[n |-> Len(fed), ok |-> FALSE]>>]
        ELSE [raised |-> FALSE,
              fed_tab |-> insert_rows(fed_tab, fed_rows),
              art_tab |-> insert_rows(art_tab, art_rows),
              fed |-> clear(fed), art |-> clear(art),              \* lines 43-44
              sess_bad |-> FALSE,
              flush |-> <<[n |-> Len(fed), ok |-> TRUE]>>]

\* ------------------------------------------------------------ summarizer
\* Strings are sequences of characters.
GROK_STOP_AFTER_ATTEMPT == 2
SUMMARY_MAX_FALLBACK == 200
OAUTH_STATES_MAX_AGE == 600      \* _cleanup_expired_states(max_age_seconds=600)
OAUTH_STATE_CACHE_TTL == 300     \* TTLCache(maxsize=1000, ttl=300)
TOKEN_CACHE_TTL == 300           \* _token_cache = TTLCache(maxsize=1000, ttl=300)

NoSummaryAvailable ==
    <<"N","o"," ","s","u","m","m","a","r","y"," ","a","v","a","i","l","a","b","l","e",".">>

Ellipsis == <<".", ".", ".">>

IsSpace(c) == c = " "

\* str.strip(): what lies between the first and the last character that is
\* no whitespace.
Strip(s) ==
    LET solid == {i \in 1..Len(s) : ~ IsSpace(s[i])}
    IN  IF solid = {}
        THEN <<>>
        ELSE SubSeq(s, CHOOSE i \in solid : \A j \in solid : i <= j,
                       CHOOSE i \in solid : \A j \in solid : i >= j)

\* text[:n]
Prefix(s, n) == SubSeq(s, 1, Min(n, Len(s)))

\* The fallback with the ellipsis appended to short texts as well.
TruncatedAlways(text) == Prefix(text, SUMMARY_MAX_FALLBACK) \o Ellipsis

\* text[:SUMMARY_MAX_FALLBACK] + "..." if len(text) > SUMMARY_MAX_FALLBACK else text
Truncated(text) ==
    IF Len(text) > SUMMARY_MAX_FALLBACK
    THEN Prefix(text, SUMMARY_MAX_FALLBACK) \o Ellipsis
    ELSE text

\* What one call of the Grok backend does.  `content` is the value found at
\* choices[0].message.content: a string, or "" when the key is missing.
BackendKinds == {"timeout", "http_status", "connect_error", "bad_json",
                 "no_choices", "content_not_str", "content"}

Backend(kind, content) == [kind |-> kind, content |-> content]

Returned(v, calls) == [exc |-> "none", value |-> v, calls |-> calls]
Raising(e, calls)  == [exc |-> e, value |-> <<>>, calls |-> calls]

\* The try block of _summarize_text_real, lines 61-92.
summarize_try(text, o) ==
    CASE o.kind = "timeout"         -> Raising("TimeoutException", 1)   \* client.post
      [] o.kind = "connect_error"   -> Raising("HTTPError", 1)          \* client.post
      [] o.kind = "http_status"     -> Raising("HTTPStatusError", 1)    \* raise_for_status
      [] o.kind = "bad_json"        -> Raising("Exception", 1)          \* response.json()
      [] o.kind = "no_choices"      -> Raising("Exception", 1)          \* [][0]: IndexError
      [] o.kind = "content_not_str" -> Raising("Exception", 1)          \* .strip(): AttributeError
      [] OTHER -> IF o.content # <<>>
                  THEN Returned(Strip(o.content), 1)
                  ELSE Returned(Truncated(text), 1)

\* The except clauses without the last one, `except Exception`.
summarize_except_narrow(text, exc, calls) ==
    IF exc = "Exception" THEN Raising(exc, calls) ELSE Returned(Truncated(text), calls)

\* The except clauses of _summarize_text_real, lines 94-102.
summarize_except(text, exc, calls) == Returned(Truncated(text), calls)

\* The body of _summarize_text_real, lines 51-102: one attempt.
summarize_attempt(text, api_key_set, o) ==
    IF text = <<>> \/ Strip(text) = <<>>
    THEN Returned(NoSummaryAvailable, 0)
    ELSE IF ~ api_key_set
    THEN Returned(Truncated(text), 0)
    ELSE LET t == summarize_try(text, o)
         IN  IF t.exc = "none" THEN t ELSE summarize_except(text, t.exc, t.calls)

\* retry_if_exception_type((httpx.TimeoutException, httpx.HTTPStatusError))
RetryableExceptions == {"TimeoutException", "HTTPStatusError"}

\* The tenacity wrapper of _summarize_text_real, lines 35-40: `backend` holds
\* what the backend does at each attempt; reraise=True.
RECURSIVE summarize_retry(_, _, _, _, _)
summarize_retry(text, api_key_set, backend, attempt, calls) ==
    LET a == summarize_attempt(text, api_key_set, backend[attempt])
        total == calls + a.calls
    IN  IF a.exc \in RetryableExceptions /\ attempt < GROK_STOP_AFTER_ATTEMPT
        THEN summarize_retry(text, api_key_set, backend, attempt + 1, total)
        ELSE [a EXCEPT !.calls = total]

_summarize_text_real(text, api_key_set, backend) ==
    summarize_retry(text, api_key_set, backend, 1, 0)

\* grok_mock.summarize_text: random.choice(LOREM_IPSUM_SUMMARIES)
LOREM_IPSUM_SUMMARIES ==
    [k \in 1..10 |-> <<"L", "o", "r", "e", "m", <<"0","1","2","3","4","5","6","7","8","9">>[k]>>]

mock_summarize(text, choice) ==
    IF text = <<>> \/ Strip(text) = <<>>
    THEN Returned(NoSummaryAvailable, 0)
    ELSE Returned(LOREM_IPSUM_SUMMARIES[choice], 0)

\* summarize_text = _get_summarizer(), grok.py lines 105-117
summarize_text(cfg, text, backend, choice) ==
    IF cfg.USE_MOCK_GROK
    THEN mock_summarize(text, choice)
    ELSE _summarize_text_real(text, cfg.GROK_API_KEY_set, backend)

\* ------------------------------------------------ fetch_recent_documents
\* What the source API does with one page request.
Response(kind, results) == [kind |-> kind, results |-> results]

FailureKinds == {"timeout", "http_status", "connect_error", "malformed"}

\* The exception a failed page request raises inside the try block:
\* client.get (lines 54), raise_for_status (line 60), response.json (line 62).
FetchException(kind) ==
    CASE kind = "timeout"       -> "TimeoutException"
      [] kind = "http_status"   -> "HTTPStatusError"
      [] kind = "connect_error" -> "HTTPError"
      [] OTHER                  -> "Exception"

\* The fetch without its except clauses: the exception leaves the function.
fetch_except_missing(exc) == [exc |-> exc, value |-> <<>>]

\* The except clauses of fetch_recent_documents, lines 91-100: every
\* exception is answered with `return []`.
fetch_except(exc) == [exc |-> "none", value |-> <<>>]

\* The tenacity wrapper, lines 13-18: retry on these, at most 3 attempts.
fetch_retry(exc, attempts) ==
    exc \in {"TimeoutException", "HTTPStatusError"} /\ attempts < FETCH_STOP_AFTER_ATTEMPT

\* fetch_and_process after the fetch has returned `docs`, lines 71-83.
after_fetch(st, docs) ==
    IF docs = <<>>
    THEN [st EXCEPT !.documents = <<>>, !.pc = "close"]
    ELSE [st EXCEPT !.documents = docs, !.pc = "loop", !.i = 1]

\* A loop without its page limit.
while_unbounded(page_count) == TRUE

\* while page_count < settings.FEDERAL_REGISTER_MAX_PAGES, line 49
while_continues(page_count) == page_count < FEDERAL_REGISTER_MAX_PAGES

\* One page request of the fetch and all that follows it without a further
\* request: lines 49-100 of federal_register.py, the retry decision and,
\* when the fetch is over, lines 71-83 of scraper.py.
page_request(st, resp) ==
    LET s0 == [st EXCEPT !.requests = @ + 1]
    IN  IF resp.kind = "ok"
        THEN LET docs == s0.documents \o resp.results
             IN  IF Len(resp.results) < FEDERAL_REGISTER_PER_PAGE
                    \/ ~ while_continues(s0.page_count + 1)
                 THEN after_fetch([s0 EXCEPT !.page = IF Len(resp.results) < FEDERAL_REGISTER_PER_PAGE
                                                       THEN @ ELSE @ + 1,
                                             !.page_count = IF Len(resp.results) < FEDERAL_REGISTER_PER_PAGE
                                                             THEN @ ELSE @ + 1],
                                  docs)
                 ELSE [s0 EXCEPT !.documents = docs, !.page = @ + 1, !.page_count = @ + 1]
        ELSE LET s1 == [s0 EXCEPT !.fetch_error = resp.kind]
                 h  == fetch_except(FetchException(resp.kind))
             IN  IF h.exc = "none"
                 THEN after_fetch(s1, h.value)
                 ELSE IF fetch_retry(h.exc, s1.attempts)
                 THEN [s1 EXCEPT !.attempts = @ + 1, !.documents = <<>>,
                                 !.page = 1, !.page_count = 0]
                 ELSE [s1 EXCEPT !.documents = <<>>, !.pc = "fatal", !.fatal = TRUE]

\* ----------------------------------------------------- fetch_and_process
Settings == [GROK_API_KEY_set : BOOLEAN, USE_MOCK_GROK : BOOLEAN]

\* The configuration the pipeline runs with.
PipelineSettings == [GROK_API_KEY_set |-> TRUE, USE_MOCK_GROK |-> FALSE]

\* abstract or full_text[:1000] of a document without fault
SummaryText == <<"a", "b", "s", "t", "r", "a", "c", "t">>

SampleContent == <<" ", "o", "k", " ">>

\* What the Grok backend may do for one document of the pipeline.
PipelineBackends ==
    {Backend(k, <<>>) : k \in BackendKinds} \cup {Backend("content", SampleContent)}

\* The threshold test with > for >=.
threshold_exceeded(n) == n > BATCH_SIZE

\* if len(new_fed_entries) >= BATCH_SIZE, line 156
threshold_reached(n) == n >= BATCH_SIZE

\* A dedupe check that finds nothing.
existing_never(doc, fed_tab, art_tab) == FALSE

\* The dedupe check, lines 98-113: existing_article or existing_fed_entry.
existing(doc, fed_tab, art_tab) ==
    LET existing_article   == \E row \in art_tab : row.source_url = doc.html_url
        existing_fed_entry == \E row \in fed_tab : row.document_number = doc.document_number
    IN  existing_article \/ existing_fed_entry

\* The body of the item loop for one document, lines 85-170.
process_document(st, doc, fed_tab, art_tab, env_ok, o) ==
    LET next    == [st EXCEPT !.i = @ + 1]
        err(s)  == [s EXCEPT !.error_count = @ + 1]                 \* lines 163-170
        keep(s) == [st |-> s, fed_tab |-> fed_tab, art_tab |-> art_tab]
    IN  IF doc.fault = "not_dict"
        THEN \* line 87 raises, line 164 counts, line 167 raises again: outer except
             keep([st EXCEPT !.error_count = @ + 1, !.pc = "fatal", !.fatal = TRUE])
        ELSE IF doc.fault = "title"
        THEN keep(err(next))                                        \* line 91
        ELSE IF st.needs_rollback
        THEN keep(err(next))                                        \* line 99: PendingRollbackError
        ELSE IF existing(doc, fed_tab, art_tab)
        THEN keep([next EXCEPT !.skipped_count = @ + 1,             \* lines 113-116
                               !.skipped = Append(@, st.i)])
        ELSE
        LET s1 == [next EXCEPT !.new_fed_entries =
                       Append(@, [document_number |-> doc.document_number, raw_data |-> doc])]
        IN  IF doc.fault = "text"
            THEN keep(err(s1))                                      \* line 129
            ELSE
            LET sum == summarize_text(PipelineSettings, SummaryText, <<o, o>>, 1)
                s2  == [s1 EXCEPT !.summarized = Append(@, st.i)]
            IN  IF sum.exc # "none"
                THEN keep(err(s2))                                  \* line 133
                ELSE
                LET s3 == [s2 EXCEPT !.new_articles = Append(@, [source_url |-> doc.html_url]),
                                     !.processed_count = @ + 1]
                IN  IF threshold_reached(Len(s3.new_fed_entries))
                    THEN LET b  == _insert_batch(s3.needs_rollback, fed_tab, art_tab,
                                                 s3.new_fed_entries, s3.new_articles, env_ok)
                             s4 == [s3 EXCEPT !.new_fed_entries = b.fed,
                                              !.new_articles = b.art,
                                              !.needs_rollback = b.sess_bad,
                                              !.flushes = @ \o b.flush,
                                              !.env_failed = @ \/ ~ env_ok]
                         IN  [st |-> IF b.raised THEN err(s4) ELSE s4,
                              fed_tab |-> b.fed_tab, art_tab |-> b.art_tab]
                    ELSE keep(s3)

\* --------------------------------------------------- likes and bookmarks
\* services/like.py and services/bookmark.py.  The functions are synchronous
\* and each call has a session of its own (routers/common.py get_db), so a
\* call is one step.
Users == {1, 2}

\* The ids of the rows of frarticles, and the ids a caller may pass.
FRArticles == {1, 2}

ArticleIds == FRArticles \cup {3}

\* Optional values: None, or the value.
None == <<>>

Some(v) == <<v>>

\* Integer primary key: the next id lies above every stored id.
NextRowId(tab) ==
    IF tab = {} THEN 1
    ELSE (CHOOSE x \in {row.id : row \in tab} : \A row \in tab : x >= row.id) + 1

\* UniqueConstraint("user_id", "frarticle_id") of Like and of Bookmark.
UniqueUserArticle(tab) ==
    \A x, y \in tab :
        (x.user_id = y.user_id /\ x.frarticle_id = y.frarticle_id) => x = y

\* Query.first()
First(rows) ==
    IF rows = {} THEN None
    ELSE Some(CHOOSE row \in rows : \A other \in rows : row.id <= other.id)

\* A call that does not look the article up.
article_unchecked(frarticle_id) == TRUE

\* db.query(FRArticle).filter(FRArticle.id == frarticle_id).first()
article_exists(frarticle_id) == frarticle_id \in FRArticles

\* A lookup that finds nothing.
find_like_missing(tab, user_id, frarticle_id) == None

\* like.py lines 35-40
find_like(tab, user_id, frarticle_id) ==
    First({row \in tab : row.user_id = user_id /\ row.frarticle_id = frarticle_id})

Answer(raised, value, tab) == [raised |-> raised, value |-> value, tab |-> tab]

\* The commit of a new row: rejected when the unique constraint is violated.
commit_insert(tab, row) ==
    IF UniqueUserArticle(tab \cup {row})
    THEN Answer("none", Some(row), tab \cup {row})
    ELSE Answer("IntegrityError", None, tab)

\* like.py toggle_like, lines 12-69
toggle_like(tab, user_id, frarticle_id, is_positive) ==
    IF ~ article_exists(frarticle_id)
    THEN Answer("ValueError", None, tab)                              \* line 32
    ELSE LET found == find_like(tab, user_id, frarticle_id)
         IN  IF found # None
             THEN LET like == found[1]
                  IN  IF like.is_positive = is_positive
                      THEN Answer("none", None, tab \ {like})         \* lines 45-48
                      ELSE LET changed == [like EXCEPT !.is_positive = is_positive]
                           IN  Answer("none", Some(changed), (tab \ {like}) \cup {changed})
             ELSE commit_insert(tab, [id |-> NextRowId(tab), user_id |-> user_id,
                                      frarticle_id |-> frarticle_id,
                                      is_positive |-> is_positive])

\* like.py get_like_status, lines 72-91
get_like_status(tab, user_id, frarticle_id) ==
    LET found == find_like(tab, user_id, frarticle_id)
    IN  IF found = None THEN None ELSE Some(found[1].is_positive)

\* like.py remove_like, lines 94-120
remove_like(tab, user_id, frarticle_id) ==
    LET found == find_like(tab, user_id, frarticle_id)
    IN  IF found # None
        THEN Answer("none", Some(TRUE), tab \ {found[1]})
        ELSE Answer("none", Some(FALSE), tab)

\* The counts without the filter on the article.
get_article_like_counts_any(tab, frarticle_id) ==
    [likes    |-> Cardinality({row \in tab : row.is_positive}),
     dislikes |-> Cardinality({row \in tab : ~ row.is_positive})]

\* like.py get_article_like_counts, lines 123-151
get_article_like_counts(tab, frarticle_id) ==
    [likes    |-> Cardinality({row \in tab : row.frarticle_id = frarticle_id
                                              /\ row.is_positive}),
     dislikes |-> Cardinality({row \in tab : row.frarticle_id = frarticle_id
                                              /\ ~ row.is_positive})]

\* bookmark.py lines 33-38
find_bookmark(tab, user_id, frarticle_id) ==
    First({row \in tab : row.user_id = user_id /\ row.frarticle_id = frarticle_id})

\* A toggle that only ever switches the bookmark on.
toggled_on(is_bookmarked) == TRUE

\* bookmark.is_bookmarked = not bookmark.is_bookmarked, line 42
toggled(is_bookmarked) == ~ is_bookmarked

\* bookmark.py toggle_bookmark, lines 12-59; `at` is the time of the call.
toggle_bookmark(tab, user_id, frarticle_id, at) ==
    IF ~ article_exists(frarticle_id)
    THEN Answer("ValueError", None, tab)                              \* line 30
    ELSE LET found == find_bookmark(tab, user_id, frarticle_id)
         IN  IF found # None
             THEN LET changed == [found[1] EXCEPT !.is_bookmarked = toggled(@)]
                  IN  Answer("none", Some(changed), (tab \ {found[1]}) \cup {changed})
             ELSE commit_insert(tab, [id |-> NextRowId(tab), user_id |-> user_id,
                                      frarticle_id |-> frarticle_id,
                                      is_bookmarked |-> TRUE, created_at |-> at])

\* order_by(Bookmark.created_at.desc()).all()
RECURSIVE OrderByCreatedAtDesc(_)
OrderByCreatedAtDesc(rows) ==
    IF rows = {} THEN <<>>
    ELSE LET latest == CHOOSE row \in rows :
                          \A other \in rows :
                              \/ row.created_at > other.created_at
                              \/ row.created_at = other.created_at /\ row.id >= other.id
         IN  <<latest>> \o OrderByCreatedAtDesc(rows \ {latest})

\* bookmark.py get_user_bookmarks, lines 62-81
get_user_bookmarks(tab, user_id, include_unbookmarked) ==
    OrderByCreatedAtDesc({row \in tab : /\ row.user_id = user_id
                                        /\ include_unbookmarked \/ row.is_bookmarked})

\* bookmark.py get_bookmark_status, lines 84-104
get_bookmark_status(tab, user_id, frarticle_id) ==
    \E row \in tab : /\ row.user_id = user_id
                     /\ row.frarticle_id = frarticle_id
                     /\ row.is_bookmarked

\* bookmark.py remove_bookmark, lines 136-163
remove_bookmark(tab, user_id, frarticle_id) ==
    LET found == find_bookmark(tab, user_id, frarticle_id)
    IN  IF found # None
        THEN LET changed == [found[1] EXCEPT !.is_bookmarked = FALSE]
             IN  Answer("none", Some(TRUE), (tab \ {found[1]}) \cup {changed})
        ELSE Answer("none", Some(FALSE), tab)

\* ----------------------------------------------------------- OAuth state
\* routers/oauth.py keeps {state: timestamp} in the dict _oauth_states,
\* routers/auth.py keeps its states in the TTLCache _oauth_state_cache.  Both
\* stores are sets of [state, ts] here.
Routers == {"oauth", "auth"}

\* The state no login endpoint issued.
ForgedState == 0

Stored(state, ts) == [state |-> state, ts |-> ts]

Keys(store) == {e.state : e \in store}

\* dict.pop(state, None) and del cache[state]
Pop(store, state) == {e \in store : e.state # state}

\* oauth.py _cleanup_expired_states, lines 22-27
_cleanup_expired_states(store, at) ==
    {e \in store : ~ (at - e.ts > OAUTH_STATES_MAX_AGE)}

\* TTLCache: an entry is gone ttl seconds after it was set.
Unexpired(cache, at) == {e \in cache : at < e.ts + OAUTH_STATE_CACHE_TTL}

\* A check that finds every state.
state_known_always(router, states, cache, state, at) == TRUE

\* `state in _oauth_states` (oauth.py line 54), `state in _oauth_state_cache`
\* (auth.py line 124)
state_known(router, states, cache, state, at) ==
    IF router = "oauth"
    THEN state \in Keys(states)
    ELSE state \in Keys(Unexpired(cache, at))

\* How the handling of an accepted callback ends: oauth.py lines 58-136,
\* auth.py lines 132-163.
Outcomes(router) ==
    IF router = "oauth"
    THEN {"success", "invalid_user_info", "invalid_response",
          "token_exchange_failed", "oauth_error"}
    ELSE {"success", "OpenGovException", "unexpected_error"}

\* The times the clock is read at: the start, and each time-to-live reached
\* and just passed.
\* ---------------------------------------------------------- access tokens
\* A JWT as decode_access_token sees it: its sub claim, its exp claim and
\* whether its signature verifies under JWT_SECRET_KEY.
Subs == {"1", "2", "9", "x", "none"}

\* The users table: user 1 is active, user 2 is not, there is no user 9.
AuthUsers == {[id |-> 1, is_active |-> TRUE], [id |-> 2, is_active |-> FALSE]}

\* int(user_id_str) of line 165: the digits of the claim, or a ValueError.
ParseInt(sub) ==
    CASE sub = "1" -> Some(1)
      [] sub = "2" -> Some(2)
      [] sub = "9" -> Some(9)
      [] OTHER     -> None

\* db.query(User).filter(User.id == user_id).first()
find_user(user_id) == First({u \in AuthUsers : u.id = user_id})

\* TTLCache.get: an entry answers while at < ts + ttl.
token_cache_get(cache, token, at) ==
    LET hits == {e \in cache : e.token = token /\ at < e.ts + TOKEN_CACHE_TTL}
    IN  IF hits = {} THEN None ELSE Some((CHOOSE e \in hits : TRUE).user_id)

\* _token_cache[token_hash] = user.id: the entry of the key is replaced and
\* the entries whose time has passed are dropped.
token_cache_set(cache, token, user_id, at) ==
    {e \in cache : e.token # token /\ at < e.ts + TOKEN_CACHE_TTL}
        \cup {[token |-> token, user_id |-> user_id, ts |-> at]}

\* jwt.decode under decode_access_token: the signature first, then exp
\* (expired when exp < now); ExpiredSignatureError is caught before JWTError.
decode_access_token(token, at) ==
    IF ~ token.signed THEN [raised |-> "InvalidTokenError", sub |-> "none"]
    ELSE IF token.exp < at THEN [raised |-> "TokenExpiredError", sub |-> "none"]
    ELSE [raised |-> "none", sub |-> token.sub]

TokenAnswer(raised, user, cached, cache) ==
    [raised |-> raised, user |-> user, cached |-> cached, cache |-> cache]

\* get_user_from_token from line 156 on: decode, then look the user up.
validate_token(cache, token, at) ==
    LET payload == decode_access_token(token, at)
        user_id == ParseInt(payload.sub)
        user    == IF user_id = None THEN None ELSE find_user(user_id[1])
    IN  IF payload.raised # "none" THEN TokenAnswer(payload.raised, None, FALSE, cache)
        ELSE IF payload.sub = "none" THEN TokenAnswer("InvalidTokenError", None, FALSE, cache)
        ELSE IF user_id = None THEN TokenAnswer("InvalidTokenError", None, FALSE, cache)
        ELSE IF user = None THEN TokenAnswer("UserNotFoundError", None, FALSE, cache)
        ELSE IF ~ user[1].is_active THEN TokenAnswer("InactiveUserError", None, FALSE, cache)
        ELSE TokenAnswer("none", user, FALSE,
                         token_cache_set(cache, token, user[1].id, at))

\* get_user_from_token: the cache is asked first (lines 147-154).
get_user_from_token(cache, token, at) ==
    LET cached_user_id == token_cache_get(cache, token, at)
        user == IF cached_user_id = None THEN None ELSE find_user(cached_user_id[1])
    IN  IF cached_user_id # None /\ user # None /\ user[1].is_active
        THEN TokenAnswer("none", user, TRUE, cache)
        ELSE validate_token(cache, token, at)

TimePoints ==
    {0} \cup {ttl + d : ttl \in {OAUTH_STATE_CACHE_TTL, OAUTH_STATES_MAX_AGE}, d \in {0, 1}}

\* -------------------------------------------------------------- actions
SeqsUpTo(S, n) == UNION {[1..k -> S] : k \in 0..n}

\* The documents of the small source API: two documents, a third sharing its
\* document_number with the first and its html_url with the second, and
\* faulty variants of the second.
SmallDocs ==
    {Doc(1, 1, "none"), Doc(2, 2, "none"), Doc(1, 2, "none"),
     Doc(2, 2, "title"), Doc(2, 2, "text"), Doc(2, 2, "not_dict")}

\* Page `page` of the documents `docs`, per_page documents to a page.
PageOf(docs, page) ==
    SubSeq(docs, (page - 1) * FEDERAL_REGISTER_PER_PAGE + 1,
           Min(page * FEDERAL_REGISTER_PER_PAGE, Len(docs)))

\* Failures the small source API produces: the timeout, the first of the
\* exception classes the tenacity wrapper names.
SmallFailureKinds == {"timeout"}

\* The small source API answers a request with the requested page of `source`
\* or fails.
SmallResponses(st) ==
    {Response("ok", PageOf(source, st.page))}
        \cup {Response(k, <<>>) : k \in SmallFailureKinds}

\* The large source API holds the documents 1..T, T <= MaxBatchDocs, all
\* distinct and without fault.
BatchDoc(k) == Doc(k, k, "none")

BatchSources == {[k \in 1..t |-> BatchDoc(k)] : t \in 0..MaxBatchDocs}

BatchResponses(st) ==
    {Response("ok", PageOf(source, st.page))}
        \cup {Response(k, <<>>) : k \in FailureKinds}

Active(r) == run[r].pc # "idle"

\* Whether a database call succeeds as far as the environment is concerned.
DbOutcomes == IF db_faults THEN BOOLEAN ELSE {TRUE}

\* A call of fetch_and_process begins: line 57 opens the session and the
\* tenacity wrapper starts the first attempt of the fetch.
Invoke(r) ==
    /\ ~ Active(r)
    /\ budget > 0
    /\ budget' = budget - 1
    /\ run' = [q \in Runs |->
                 IF q = r
                 THEN [IdleRun EXCEPT !.pc = "fetching", !.session_open = TRUE,
                                      !.attempts = 1,
                                      !.overlapped = Active(Other(r)),
                                      !.fed_before = federal_register_entries,
                                      !.art_before = articles]
                 ELSE [run[q] EXCEPT !.overlapped = @ \/ Active(q)]]
    /\ UNCHANGED <<federal_register_entries, articles, scraper_runs, source, db_faults, summ, log, social_vars, oauth_vars, auth_vars, writer_vars>>

\* main.py lifespan: the interval job of the scheduler fires.
scheduler_job == Invoke("scheduler")

\* routers/admin.py manual_scrape: the background task starts.
manual_scrape == Invoke("manual")

PageRequestFrom(r, responses) ==
    /\ run[r].pc = "fetching"
    /\ \E resp \in responses :
          run' = [run EXCEPT ![r] = page_request(run[r], resp)]
    /\ UNCHANGED <<federal_register_entries, articles, scraper_runs, budget, source, db_faults, summ, log, social_vars, oauth_vars, auth_vars, writer_vars>>

PageRequest(r) == PageRequestFrom(r, SmallResponses(run[r]))

PageRequestBatch(r) == PageRequestFrom(r, BatchResponses(run[r]))

\* One iteration of the item loop.
ProcessItem(r) ==
    /\ run[r].pc = "loop"
    /\ run[r].i <= Len(run[r].documents)
    /\ \E env_ok \in DbOutcomes, o \in PipelineBackends :
          LET res == process_document(run[r], run[r].documents[run[r].i],
                                      federal_register_entries, articles, env_ok, o)
          IN  /\ run' = [run EXCEPT ![r] = res.st]
              /\ federal_register_entries' = res.fed_tab
              /\ articles' = res.art_tab
    /\ UNCHANGED <<scraper_runs, budget, source, db_faults, summ, log, social_vars, oauth_vars, auth_vars, writer_vars>>

\* After the loop: the final flush, lines 172-189.
final_flush(st, fed_tab, art_tab, env_ok) ==
    IF st.new_fed_entries # <<>>                                    \* line 179
    THEN LET b  == _insert_batch(st.needs_rollback, fed_tab, art_tab,
                                 st.new_fed_entries, st.new_articles, env_ok)
             s1 == [st EXCEPT !.new_fed_entries = b.fed,
                              !.new_articles = b.art,
                              !.needs_rollback = b.sess_bad,
                              !.flushes = @ \o b.flush,
                              !.env_failed = @ \/ ~ env_ok]
         IN  [st |-> IF b.raised
                     THEN [s1 EXCEPT !.pc = "fatal", !.fatal = TRUE]    \* line 191
                     ELSE [s1 EXCEPT !.pc = "close"],
              fed_tab |-> b.fed_tab, art_tab |-> b.art_tab]
    ELSE [st |-> [st EXCEPT !.pc = "close"], fed_tab |-> fed_tab, art_tab |-> art_tab]

FinalFlush(r) ==
    /\ run[r].pc = "loop"
    /\ run[r].i > Len(run[r].documents)
    /\ \E env_ok \in DbOutcomes :
          LET res == final_flush(run[r], federal_register_entries, articles, env_ok)
          IN  /\ run' = [run EXCEPT ![r] = res.st]
              /\ federal_register_entries' = res.fed_tab
              /\ articles' = res.art_tab
    /\ UNCHANGED <<scraper_runs, budget, source, db_faults, summ, log, social_vars, oauth_vars, auth_vars, writer_vars>>

\* The fatal handler, lines 191-193: db.rollback().  When the rollback itself
\* fails its exception leaves the handler.
fatal_handler(st, rollback_ok) ==
    IF rollback_ok
    THEN [st EXCEPT !.needs_rollback = FALSE, !.pc = "close"]
    ELSE [st EXCEPT !.raised = TRUE, !.env_failed = TRUE, !.pc = "close"]

Rollback(r) ==
    /\ run[r].pc = "fatal"
    /\ \E rollback_ok \in DbOutcomes :
          run' = [run EXCEPT ![r] = fatal_handler(run[r], rollback_ok)]
    /\ UNCHANGED <<federal_register_entries, articles, scraper_runs, budget, source, db_faults, summ, log, social_vars, oauth_vars, auth_vars, writer_vars>>

\* History: what a finished call did.
LogEntry(r, st) ==
    [trigger |-> r,
     documents |-> st.documents,
     fetch_error |-> st.fetch_error, attempts |-> st.attempts, requests |-> st.requests,
     processed_count |-> st.processed_count,
     skipped_count |-> st.skipped_count,
     error_count |-> st.error_count,
     pending |-> Len(st.new_fed_entries),
     fatal |-> st.fatal, raised |-> st.raised, session_open |-> st.session_open,
     overlapped |-> st.overlapped, env_failed |-> st.env_failed,
     flushes |-> st.flushes, summarized |-> st.summarized, skipped |-> st.skipped,
     fed_before |-> st.fed_before, art_before |-> st.art_before,
     fed_after |-> federal_register_entries, art_after |-> articles,
     runs_after |-> scraper_runs]

\* The finally clause, lines 195-196: db.close(); the call is over.
Close(r) ==
    /\ run[r].pc = "close"
    /\ log' = Append(log, LogEntry(r, [run[r] EXCEPT !.session_open = FALSE]))
    /\ run' = [run EXCEPT ![r] = IdleRun]
    /\ UNCHANGED <<federal_register_entries, articles, scraper_runs, budget, source, db_faults, summ, social_vars, oauth_vars, auth_vars, writer_vars>>

\* -------------------------------------------------------- specifications
\* No call of the like and bookmark services was made.
NoServiceCall ==
    [op |-> "none", user_id |-> 0, frarticle_id |-> 0, is_positive |-> FALSE,
     raised |-> "none", value |-> None, likes_before |-> {}, bookmarks_before |-> {}]

NoToggles == [p \in Users \X ArticleIds |-> [k |-> 0, broken |-> FALSE, id |-> 0]]

SocialIdle ==
    /\ likes = {}
    /\ bookmarks = {}
    /\ call = NoServiceCall
    /\ service_calls = 0
    /\ toggles = NoToggles

Handlers == {1, 2}

IdleCallback == [pc |-> "idle", router |-> "none", state |-> 0]

OAuthIdle ==
    /\ _oauth_states = {}
    /\ _oauth_state_cache = {}
    /\ callbacks = [h \in Handlers |-> IdleCallback]
    /\ now = 0
    /\ issued = {}
    /\ oauth_log = <<>>

\* No token validated yet, no call made.
NoTokenCall ==
    [op |-> "none", token |-> [sub |-> "none", exp |-> 0, signed |-> FALSE],
     at |-> 0, cached |-> FALSE, raised |-> "none", user |-> None]

AuthIdle ==
    /\ _token_cache = {}
    /\ token_call = NoTokenCall

\* No call of _insert_batch on its own.
NoBatchCall ==
    [pc |-> "idle", sess_bad |-> FALSE, env_ok |-> TRUE, fed |-> <<>>, art |-> <<>>,
     fed_before |-> {}, art_before |-> {}, raised |-> FALSE, fed_after |-> <<>>,
     art_after |-> <<>>]

WriterIdle == batch_call = NoBatchCall

Start ==
    /\ SocialIdle
    /\ OAuthIdle
    /\ AuthIdle
    /\ WriterIdle
    /\ run = [r \in Runs |-> IdleRun]
    /\ federal_register_entries = {}
    /\ articles = {}
    /\ log = <<>>

NoCall ==
    [pc |-> "idle", cfg |-> PipelineSettings, text |-> <<>>,
     backend |-> <<Backend("content", <<>>), Backend("content", <<>>)>>,
     choice |-> 1, result |-> Returned(<<>>, 0)]

Init ==
    /\ Start
    /\ scraper_runs = {}
    /\ summ = NoCall
    /\ budget = MaxInvocations
    /\ db_faults = FALSE
    /\ source \in SeqsUpTo(SmallDocs, MaxFetched)

InitBatch ==
    /\ Start
    /\ scraper_runs = {}
    /\ summ = NoCall
    /\ budget = 1
    /\ db_faults = TRUE
    /\ source \in BatchSources

\* Both triggers, the small source API.
Next ==
    \/ scheduler_job
    \/ manual_scrape
    \/ \E r \in Runs : PageRequest(r)
    \/ \E r \in Runs : ProcessItem(r)
    \/ \E r \in Runs : FinalFlush(r)
    \/ \E r \in Runs : Rollback(r)
    \/ \E r \in Runs : Close(r)

Spec == Init /\ [][Next]_vars

\* The scheduler alone, the large source API.
NextBatch ==
    \/ scheduler_job
    \/ PageRequestBatch("scheduler")
    \/ ProcessItem("scheduler")
    \/ FinalFlush("scheduler")
    \/ Rollback("scheduler")
    \/ Close("scheduler")

SpecBatch == InitBatch /\ [][NextBatch]_vars

\* One call of summarize_text, on its own.
MaxTextLen == 202

Rep(c, n) == [k \in 1..n |-> c]

Texts ==
    {Rep("a", n) : n \in 0..2 \cup 199..MaxTextLen}
        \cup {Rep(" ", n) : n \in 1..2}
        \cup {<<" ", "a", " ">>, Rep(" ", 201)}

SummarizeBackends ==
    {Backend(k, <<>>) : k \in BackendKinds}
        \cup {Backend("content", c) : c \in {SampleContent, <<" ">>}}

InitSummarize ==
    /\ Start
    /\ scraper_runs = {}
    /\ budget = 0
    /\ source = <<>>
    /\ db_faults = FALSE
    /\ \E cfg \in Settings, text \in Texts, backend \in [1..GROK_STOP_AFTER_ATTEMPT -> SummarizeBackends] :
          \E choice \in IF cfg.USE_MOCK_GROK THEN DOMAIN LOREM_IPSUM_SUMMARIES ELSE {1} :
             summ = [pc |-> "ready", cfg |-> cfg, text |-> text, backend |-> backend,
                     choice |-> choice, result |-> Returned(<<>>, 0)]

Summarize ==
    /\ summ.pc = "ready"
    /\ summ' = [summ EXCEPT !.pc = "done",
                            !.result = summarize_text(summ.cfg, summ.text, summ.backend, summ.choice)]
    /\ UNCHANGED <<run, federal_register_entries, articles, scraper_runs, budget, source, db_faults, log, social_vars, oauth_vars, auth_vars, writer_vars>>

NextSummarize == Summarize

SpecSummarize == InitSummarize /\ [][NextSummarize]_vars

\* One call on a store that holds the records of an earlier run over the one
\* document `d`: a document the source API no longer lists, or its first.
OldDocs == {Doc(0, 0, "none"), Doc(1, 1, "none")}

OldEntries(d) == {[id |-> 1, document_number |-> d.document_number, raw_data |-> d]}

OldArticles(d) == {[id |-> 1, federal_register_id |-> 1, source_url |-> d.html_url]}

InitAppend ==
    /\ SocialIdle
    /\ OAuthIdle
    /\ AuthIdle
    /\ WriterIdle
    /\ run = [r \in Runs |-> IdleRun]
    /\ \E d \in OldDocs :
          /\ federal_register_entries = OldEntries(d)
          /\ articles = OldArticles(d)
    /\ scraper_runs = {}
    /\ log = <<>>
    /\ summ = NoCall
    /\ budget = 1
    /\ db_faults = TRUE
    /\ source \in SeqsUpTo(SmallDocs, MaxFetched)

SpecAppend == InitAppend /\ [][NextBatch]_vars

\* A ScraperRun row left unfinished long ago: completed_at is NULL and
\* started_at lies before every staleness threshold.
StaleRun ==
    [id |-> 1, started_at |-> "long_ago", completed_at |-> "null",
     processed_count |-> 0, skipped_count |-> 0, error_count |-> 0,
     success |-> FALSE]

\* One call of fetch_recent_documents, on its own, against a source API that
\* answers every request with a page of any length, also one above per_page,
\* or fails.  The scraper_runs table is empty or holds a stale row.
AnyResponses(st) ==
    {Response("ok", [k \in 1..n |-> BatchDoc(Len(st.documents) + k)]) :
        n \in 0..(FEDERAL_REGISTER_PER_PAGE + 1)}
        \cup {Response(k, <<>>) : k \in FailureKinds}

PageRequestAny(r) == PageRequestFrom(r, AnyResponses(run[r]))

InitFetch ==
    /\ Start
    /\ scraper_runs \in {{}, {StaleRun}}
    /\ summ = NoCall
    /\ budget = 1
    /\ db_faults = FALSE
    /\ source = <<>>

NextFetch ==
    \/ scheduler_job
    \/ PageRequestAny("scheduler")

SpecFetch == InitFetch /\ [][NextFetch]_vars

\* The like and bookmark services, called in any order by two users.
ServiceCall(op, user_id, frarticle_id, is_positive, answer) ==
    [op |-> op, user_id |-> user_id, frarticle_id |-> frarticle_id,
     is_positive |-> is_positive, raised |-> answer.raised, value |-> answer.value,
     likes_before |-> likes, bookmarks_before |-> bookmarks]

ToggleLike(user_id, frarticle_id, is_positive) ==
    /\ service_calls < MaxCalls
    /\ LET answer == toggle_like(likes, user_id, frarticle_id, is_positive)
       IN  /\ likes' = answer.tab
           /\ call' = ServiceCall("toggle_like", user_id, frarticle_id, is_positive, answer)
    /\ service_calls' = service_calls + 1
    /\ UNCHANGED <<bookmarks, toggles, pipeline_vars, oauth_vars, auth_vars, writer_vars>>

RemoveLike(user_id, frarticle_id) ==
    /\ service_calls < MaxCalls
    /\ LET answer == remove_like(likes, user_id, frarticle_id)
       IN  /\ likes' = answer.tab
           /\ call' = ServiceCall("remove_like", user_id, frarticle_id, FALSE, answer)
    /\ service_calls' = service_calls + 1
    /\ UNCHANGED <<bookmarks, toggles, pipeline_vars, oauth_vars, auth_vars, writer_vars>>

ToggleBookmark(user_id, frarticle_id) ==
    /\ service_calls < MaxCalls
    /\ LET answer == toggle_bookmark(bookmarks, user_id, frarticle_id, service_calls)
       IN  /\ bookmarks' = answer.tab
           /\ call' = ServiceCall("toggle_bookmark", user_id, frarticle_id, FALSE, answer)
           /\ toggles' =
                 IF answer.raised # "none" THEN toggles
                 ELSE [toggles EXCEPT ![<<user_id, frarticle_id>>] =
                          [@ EXCEPT !.k = @ + 1,
                                    !.id = IF toggles[<<user_id, frarticle_id>>].k = 0
                                           THEN answer.value[1].id ELSE @]]
    /\ service_calls' = service_calls + 1
    /\ UNCHANGED <<likes, pipeline_vars, oauth_vars, auth_vars, writer_vars>>

RemoveBookmark(user_id, frarticle_id) ==
    /\ service_calls < MaxCalls
    /\ LET answer == remove_bookmark(bookmarks, user_id, frarticle_id)
       IN  /\ bookmarks' = answer.tab
           /\ call' = ServiceCall("remove_bookmark", user_id, frarticle_id, FALSE, answer)
    /\ toggles' = [toggles EXCEPT ![<<user_id, frarticle_id>>] = [@ EXCEPT !.broken = TRUE]]
    /\ service_calls' = service_calls + 1
    /\ UNCHANGED <<likes, pipeline_vars, oauth_vars, auth_vars, writer_vars>>

InitSocial ==
    /\ Start
    /\ scraper_runs = {}
    /\ summ = NoCall
    /\ budget = 0
    /\ db_faults = FALSE
    /\ source = <<>>

NextSocial ==
    \/ \E u \in Users, a \in ArticleIds, v \in BOOLEAN : ToggleLike(u, a, v)
    \/ \E u \in Users, a \in ArticleIds : RemoveLike(u, a)
    \/ \E u \in Users, a \in ArticleIds : ToggleBookmark(u, a)
    \/ \E u \in Users, a \in ArticleIds : RemoveBookmark(u, a)

SpecSocial == InitSocial /\ [][NextSocial]_vars

\* The two OAuth routers, two callbacks at a time.
Tick(t) ==
    /\ t > now
    /\ now' = t
    /\ UNCHANGED <<_oauth_states, _oauth_state_cache, callbacks, issued, oauth_log,
                   pipeline_vars, social_vars, auth_vars, writer_vars>>

\* secrets.token_urlsafe(32): a state no one has seen.
FreshState == Cardinality(issued) + 1

\* google_login of oauth.py (lines 30-40) and of auth.py (lines 64-97, with
\* OAuth configured).
google_login(router) ==
    /\ Cardinality(issued) < MaxStates
    /\ IF router = "oauth"
       THEN /\ _oauth_states' =
                  _cleanup_expired_states(_oauth_states, now) \cup {Stored(FreshState, now)}
            /\ UNCHANGED _oauth_state_cache
       ELSE /\ _oauth_state_cache' =
                  Unexpired(_oauth_state_cache, now) \cup {Stored(FreshState, now)}
            /\ UNCHANGED _oauth_states
    /\ issued' = issued \cup {[state |-> FreshState, router |-> router, at |-> now]}
    /\ UNCHANGED <<callbacks, now, oauth_log, pipeline_vars, social_vars, auth_vars, writer_vars>>

Answered(router, state, accepted, outcome) ==
    [router |-> router, state |-> state, accepted |-> accepted, outcome |-> outcome,
     at |-> now]

Begun == Len(oauth_log) + Cardinality({h \in Handlers : callbacks[h].pc # "idle"})

\* google_callback up to its first await: oauth.py lines 53-60, auth.py lines
\* 122-133.
CallbackBegin(h, router, state) ==
    /\ callbacks[h].pc = "idle"
    /\ Begun < MaxCallbacks
    /\ IF ~ state_known(router, _oauth_states, _oauth_state_cache, state, now)
       THEN /\ oauth_log' = Append(oauth_log, Answered(router, state, FALSE, "invalid_state"))
            /\ UNCHANGED <<callbacks, _oauth_states, _oauth_state_cache>>
       ELSE /\ callbacks' = [callbacks EXCEPT ![h] =
                                [pc |-> "exchange", router |-> router, state |-> state]]
            /\ IF router = "auth"
               THEN _oauth_state_cache' = Pop(_oauth_state_cache, state)    \* line 130
               ELSE UNCHANGED _oauth_state_cache
            /\ UNCHANGED <<_oauth_states, oauth_log>>
    /\ UNCHANGED <<now, issued, pipeline_vars, social_vars, auth_vars, writer_vars>>

\* google_callback from the code exchange to its response: oauth.py lines
\* 60-139 with the finally clause, auth.py lines 133-163.
CallbackEnd(h) ==
    /\ callbacks[h].pc = "exchange"
    /\ \E outcome \in Outcomes(callbacks[h].router) :
          oauth_log' = Append(oauth_log, Answered(callbacks[h].router, callbacks[h].state,
                                                  TRUE, outcome))
    /\ IF callbacks[h].router = "oauth"
       THEN _oauth_states' = Pop(_oauth_states, callbacks[h].state)         \* line 139
       ELSE UNCHANGED _oauth_states
    /\ callbacks' = [callbacks EXCEPT ![h] = IdleCallback]
    /\ UNCHANGED <<_oauth_state_cache, now, issued, pipeline_vars, social_vars, auth_vars, writer_vars>>

InitOAuth ==
    /\ Start
    /\ scraper_runs = {}
    /\ summ = NoCall
    /\ budget = 0
    /\ db_faults = FALSE
    /\ source = <<>>

NextOAuth ==
    \/ \E t \in TimePoints : Tick(t)
    \/ \E router \in Routers : google_login(router)
    \/ \E h \in Handlers, router \in Routers, state \in {ForgedState} \cup 1..MaxStates :
          CallbackBegin(h, router, state)
    \/ \E h \in Handlers : CallbackEnd(h)

SpecOAuth == InitOAuth /\ [][NextOAuth]_vars

\* The token service under a running clock.
Tokens == [sub : Subs, exp : {TOKEN_CACHE_TTL, 2 * TOKEN_CACHE_TTL}, signed : BOOLEAN]

GetUserFromToken(token) ==
    /\ LET answer == get_user_from_token(_token_cache, token, now)
       IN  /\ _token_cache' = answer.cache
           /\ token_call' = [op |-> "get_user_from_token", token |-> token, at |-> now,
                             cached |-> answer.cached, raised |-> answer.raised,
                             user |-> answer.user]
    /\ UNCHANGED <<pipeline_vars, social_vars, oauth_vars, writer_vars>>

InitToken ==
    /\ Start
    /\ scraper_runs = {}
    /\ summ = NoCall
    /\ budget = 0
    /\ db_faults = FALSE
    /\ source = <<>>

NextToken ==
    \/ \E t \in TimePoints : Tick(t)
    \/ \E token \in Tokens : GetUserFromToken(token)

SpecToken == InitToken /\ [][NextToken]_vars

\* One call of _insert_batch, on its own: the pending lists are those the item
\* loop builds from up to MaxPending documents, a document whose text raises
\* leaving an entry without an article.
MaxPending == 2

PendingDocs == {Doc(1, 1, "none"), Doc(2, 2, "none"), Doc(1, 2, "none"), Doc(2, 2, "text")}

PendingEntries(docs) ==
    [k \in 1..Len(docs) |-> [document_number |-> docs[k].document_number, raw_data |-> docs[k]]]

PendingArticles(docs) ==
    LET sound == SelectSeq(docs, LAMBDA d : d.fault = "none")
    IN  [k \in 1..Len(sound) |-> [source_url |-> sound[k].html_url]]

InitInsert ==
    /\ SocialIdle
    /\ OAuthIdle
    /\ AuthIdle
    /\ run = [r \in Runs |-> IdleRun]
    /\ log = <<>>
    /\ scraper_runs = {}
    /\ summ = NoCall
    /\ budget = 0
    /\ source = <<>>
    /\ db_faults = TRUE
    /\ \E stored \in {<<>>, <<Doc(1, 1, "none")>>} :
          /\ federal_register_entries =
                {[id |-> k, document_number |-> stored[k].document_number,
                  raw_data |-> stored[k]] : k \in 1..Len(stored)}
          /\ articles =
                {[id |-> k, federal_register_id |-> k,
                  source_url |-> stored[k].html_url] : k \in 1..Len(stored)}
    /\ \E docs \in SeqsUpTo(PendingDocs, MaxPending), sess_bad \in BOOLEAN, env_ok \in DbOutcomes :
          batch_call = [NoBatchCall EXCEPT !.pc = "ready", !.sess_bad = sess_bad,
                                           !.env_ok = env_ok,
                                           !.fed = PendingEntries(docs),
                                           !.art = PendingArticles(docs)]

InsertBatch ==
    /\ batch_call.pc = "ready"
    /\ LET b == _insert_batch(batch_call.sess_bad, federal_register_entries, articles,
                              batch_call.fed, batch_call.art, batch_call.env_ok)
       IN  /\ federal_register_entries' = b.fed_tab
           /\ articles' = b.art_tab
           /\ batch_call' = [batch_call EXCEPT !.pc = "done",
                                               !.fed_before = federal_register_entries,
                                               !.art_before = articles,
                                               !.raised = b.raised,
                                               !.fed_after = b.fed,
                                               !.art_after = b.art]
    /\ UNCHANGED <<run, scraper_runs, budget, source, db_faults, summ, log,
                   social_vars, oauth_vars, auth_vars>>

NextInsert == InsertBatch

SpecInsert == InitInsert /\ [][NextInsert]_vars

\* The scheduler alone, a source API of BATCH_SIZE documents or a few more, one
\* of which, the first or the one that fills the batch, may carry a fault.
MaxExtra == 2

MixedSources ==
    {[k \in 1..t |-> Doc(k, k, IF k = p THEN f ELSE "none")] :
        t \in BATCH_SIZE..(BATCH_SIZE + MaxExtra), p \in {1, BATCH_SIZE},
        f \in Faults}

InitMixed ==
    /\ Start
    /\ scraper_runs = {}
    /\ summ = NoCall
    /\ budget = 1
    /\ db_faults = FALSE
    /\ source \in MixedSources

SpecMixed == InitMixed /\ [][NextBatch]_vars

\* =============================================================== claims
Entries == {log[k] : k \in 1..Len(log)}

Flushed(n) == [n |-> n, ok |-> TRUE]

\* The documents of a run that raise while they are processed.
Faulty(docs) == {k \in 1..Len(docs) : docs[k].fault # "none"}

\* No two documents of the list share a document_number or an html_url.
Distinct(docs) ==
    \A j, k \in 1..Len(docs) :
        j # k => /\ docs[j].document_number # docs[k].document_number
                 /\ docs[j].html_url # docs[k].html_url

\* No document of the list was stored when the run began.
NoneStored(e) ==
    \A k \in 1..Len(e.documents) :
        /\ \A row \in e.fed_before : row.document_number # e.documents[k].document_number
        /\ \A row \in e.art_before : row.source_url # e.documents[k].html_url

\* C1: a run over N documents, none stored, exactly one of which raises,
\* ends with processed_count = N-1, error_count = 1, skipped_count = 0, is
\* not aborted, persists exactly N-1 records and none for the failing document.
ErrorIsolation ==
    \A e \in Entries :
        (/\ ~ e.overlapped
         /\ NoneStored(e)
         /\ Distinct(e.documents)
         /\ Cardinality(Faulty(e.documents)) = 1)
        => LET N   == Len(e.documents)
               bad == e.documents[CHOOSE k \in Faulty(e.documents) : TRUE]
           IN  /\ e.processed_count = N - 1
               /\ e.error_count = 1
               /\ e.skipped_count = 0
               /\ ~ e.fatal
               /\ Cardinality(e.fed_after \ e.fed_before) = N - 1
               /\ Cardinality(e.art_after \ e.art_before) = N - 1
               /\ \A row \in e.fed_after : row.document_number # bad.document_number
               /\ \A row \in e.art_after : row.source_url # bad.html_url

\* C2: no two stored FederalRegister entries share a document_number and no
\* two stored articles share a source_url.
NoDuplicateRecords ==
    /\ \A a, b \in federal_register_entries :
          a.document_number = b.document_number => a = b
    /\ \A a, b \in articles :
          a.source_url = b.source_url => a = b

\* Two overlapping runs have ended, one of them had its flush rejected, and
\* two entries and two articles are stored.
NoDuplicateRecordsWitness ==
    /\ Len(log) = 2
    /\ \A e \in Entries : e.overlapped
    /\ \E e \in Entries : \E k \in 1..Len(e.flushes) : ~ e.flushes[k].ok
    /\ Cardinality(federal_register_entries) = 2
    /\ Cardinality(articles) = 2

\* C3: of two runs in sequence that fetch the same documents, the first on an
\* empty store, the second leaves the records as the first left them, with
\* processed_count = 0 and skipped_count = the number of documents the
\* first run stored.
Idempotence ==
    \A k \in 1..(Len(log) - 1) :
        LET first  == log[k]
            second == log[k + 1]
        IN  (/\ ~ first.overlapped /\ ~ second.overlapped
             /\ first.fetch_error = "none" /\ second.fetch_error = "none"
             /\ first.fed_before = {} /\ first.art_before = {}
             /\ first.documents = second.documents)
            => /\ second.fed_after = first.fed_after
               /\ second.art_after = first.art_after
               /\ second.processed_count = 0
               /\ second.skipped_count = Cardinality(first.fed_after)

\* C4: at most one call of fetch_and_process is past its guard at any time.
GuardExclusivity == Cardinality({r \in Runs : Active(r)}) <= 1

\* ceil(n / b)
CeilDiv(n, b) == (n + b - 1) \div b

\* C5: a run over N documents, all new and none failing, performs
\* ceil(N / BATCH_SIZE) flushes, all but the last of BATCH_SIZE records and
\* the last of the remainder, none of them empty, and stores all N.
BatchFlushBoundary ==
    \A e \in Entries :
        (/\ e.fetch_error = "none"
         /\ e.skipped_count = 0 /\ e.error_count = 0 /\ ~ e.fatal)
        => LET N == Len(e.documents)
               F == CeilDiv(N, BATCH_SIZE)
           IN  /\ Len(e.flushes) = F
               /\ \A k \in 1..F :
                     e.flushes[k] =
                        Flushed(IF k < F THEN BATCH_SIZE ELSE N - BATCH_SIZE * (F - 1))
               /\ \A k \in 1..F : e.flushes[k].n > 0
               /\ e.processed_count = N
               /\ Cardinality(e.fed_after) = N
               /\ Cardinality(e.art_after) = N

\* A run over 120 documents has flushed 50, 50 and 20.
BatchFlushBoundaryWitness ==
    \E e \in Entries :
        /\ Len(e.documents) = 120
        /\ e.flushes = <<Flushed(50), Flushed(50), Flushed(20)>>
        /\ Cardinality(e.art_after) = 120

IsString(v) == /\ DOMAIN v = 1..Len(v)
               /\ \A k \in 1..Len(v) : v[k] \in STRING

\* C6: summarize_text returns a string, and raises nothing, for every text
\* and whatever the backend does.
SummarizerNeverRaises ==
    summ.pc = "done" => /\ summ.result.exc = "none"
                        /\ IsString(summ.result.value)

\* The real summarizer, with a key, got a malformed body for a text longer
\* than the fallback length and returned the truncated text.
SummarizerNeverRaisesWitness ==
    /\ summ.pc = "done"
    /\ ~ summ.cfg.USE_MOCK_GROK /\ summ.cfg.GROK_API_KEY_set
    /\ summ.backend[1].kind = "bad_json"
    /\ Len(summ.text) > SUMMARY_MAX_FALLBACK
    /\ summ.result.value = Truncated(summ.text)

\* How a run ends whose fetch found nothing.
EndsAsEmpty(e) ==
    /\ e.documents = <<>>
    /\ ~ e.fatal /\ ~ e.raised /\ ~ e.session_open
    /\ e.processed_count = 0 /\ e.skipped_count = 0 /\ e.error_count = 0
    /\ e.flushes = <<>> /\ e.summarized = <<>>
    /\ e.fed_after = e.fed_before /\ e.art_after = e.art_before

\* C7: a fetch one of whose page requests failed hands the empty list to the
\* pipeline, raising nothing, and the run ends as a run that fetched nothing.
FetchFailureDegrades ==
    /\ \A r \in Runs : run[r].fetch_error # "none" => run[r].pc = "close"
    /\ \A e \in Entries :
          (e.fetch_error # "none" \/ e.documents = <<>>) => EndsAsEmpty(e)

\* The request for the second page failed, after a full first page.
FetchFailureDegradesWitness ==
    \E e \in Entries :
        /\ e.fetch_error = "timeout"
        /\ e.requests = 2
        /\ EndsAsEmpty(e)

\* C8: every call of fetch_and_process returns normally, its session closed.
NeverPropagates ==
    \A e \in Entries : ~ e.raised /\ ~ e.session_open

\* A finalized ScraperRun row for the finished call `e`.
Finalized(rec, e) ==
    /\ rec.completed_at # "null"
    /\ rec.processed_count = e.processed_count
    /\ rec.skipped_count = e.skipped_count
    /\ rec.error_count = e.error_count
    /\ rec.success = ~ e.fatal

\* C9: a call in progress has a committed ScraperRun row, and a finished call
\* has a finalized one that carries its counters and its success.
RunRecordLifecycle ==
    /\ \A r \in Runs : Active(r) => \E rec \in scraper_runs : rec.completed_at = "null"
    /\ \A e \in Entries : \E rec \in e.runs_after : Finalized(rec, e)

\* C10: a fetch that gave up on a timeout or an HTTP error status made 3
\* attempts; one that gave up on another failure made 1.
FetchRetryPolicy ==
    \A e \in Entries :
        /\ e.fetch_error \in {"timeout", "http_status"}
              => e.attempts = FETCH_STOP_AFTER_ATTEMPT
        /\ e.fetch_error \in {"connect_error", "malformed"} => e.attempts = 1

\* C11: the real summarizer, with a key and a text that is not blank, whose
\* first backend call fails with a timeout or an HTTP error status calls the
\* backend a second time, and never more than GROK_STOP_AFTER_ATTEMPT times;
\* it returns the summary of the second call when that call delivers one.
SummarizerRetryPolicy ==
    (/\ summ.pc = "done"
     /\ ~ summ.cfg.USE_MOCK_GROK /\ summ.cfg.GROK_API_KEY_set
     /\ Strip(summ.text) # <<>>
     /\ summ.backend[1].kind \in {"timeout", "http_status"})
    => /\ summ.result.calls = GROK_STOP_AFTER_ATTEMPT
       /\ (summ.backend[2].kind = "content" /\ summ.backend[2].content # <<>>)
             => summ.result.value = Strip(summ.backend[2].content)

\* C12: a fetch in progress has issued fewer than FEDERAL_REGISTER_MAX_PAGES
\* page requests and has seen no page shorter than per_page; no fetch issues
\* more than FEDERAL_REGISTER_MAX_PAGES page requests.
PaginationTerminates ==
    \A r \in Runs :
        /\ run[r].requests <= FEDERAL_REGISTER_MAX_PAGES
        /\ run[r].pc = "fetching"
              => /\ run[r].requests < FEDERAL_REGISTER_MAX_PAGES
                 /\ Len(run[r].documents) >= run[r].requests * FEDERAL_REGISTER_PER_PAGE

\* A fetch has ended at the page limit, after two full pages.
PaginationTerminatesWitness ==
    \E r \in Runs :
        /\ run[r].pc = "loop"
        /\ run[r].requests = FEDERAL_REGISTER_MAX_PAGES
        /\ Len(run[r].documents) = FEDERAL_REGISTER_MAX_PAGES * FEDERAL_REGISTER_PER_PAGE

\* The value the summarizer falls back to.
Fallback(text) ==
    IF Len(text) <= 200 THEN text ELSE SubSeq(text, 1, 200) \o <<".", ".", ".">>

\* The real summarizer obtained no summary from the backend.
NoBackendSummary ==
    \/ ~ summ.cfg.GROK_API_KEY_set
    \/ summ.backend[1].kind # "content"
    \/ summ.backend[1].content = <<>>

StaleRunReclaim ==
    \A r \in Runs :
        (Active(r) /\ StaleRun \in scraper_runs)
        => \E rec \in scraper_runs :
              /\ rec # StaleRun
              /\ rec.started_at = "now"
              /\ rec.completed_at = "null"

\* C15: every FederalRegister entry and every article stored when a run
\* began is stored unchanged while the run is active and when it has ended,
\* however it ended.
AppendOnly ==
    /\ \A r \in Runs :
          Active(r) => /\ run[r].fed_before \subseteq federal_register_entries
                       /\ run[r].art_before \subseteq articles
    /\ \A e \in Entries :
          /\ e.fed_before \subseteq e.fed_after
          /\ e.art_before \subseteq e.art_after

\* A run that began on a store with records met a per-item error and added
\* records of its own.
AppendOnlyWitness ==
    \E e \in Entries :
        /\ ~ e.fatal /\ e.error_count > 0
        /\ e.fed_before # {} /\ e.art_before # {}
        /\ e.fed_after # e.fed_before /\ e.art_after # e.art_before

\* C16: a toggle_like(user, article, v) on an existing article created a
\* vote v when there was none, deleted the vote and returned None when the
\* vote was v (get_like_status is None afterwards), and changed the stored
\* row to v, its id kept, when the vote was not v.
ToggleLikeStateMachine ==
    (call.op = "toggle_like" /\ call.frarticle_id \in FRArticles)
    => LET u      == call.user_id
           a      == call.frarticle_id
           v      == call.is_positive
           before == {row \in call.likes_before : row.user_id = u /\ row.frarticle_id = a}
           after  == {row \in likes : row.user_id = u /\ row.frarticle_id = a}
           others == {row \in likes : ~ (row.user_id = u /\ row.frarticle_id = a)}
       IN  /\ call.raised = "none"
           /\ others = call.likes_before \ before
           /\ before = {}
                 => /\ \E row \in after : after = {row} /\ row.is_positive = v
                                          /\ call.value = Some(row)
                    /\ get_like_status(likes, u, a) = Some(v)
           /\ (\E row \in before : row.is_positive = v)
                 => /\ after = {}
                    /\ call.value = None
                    /\ get_like_status(likes, u, a) = None
           /\ (\E row \in before : row.is_positive # v)
                 => /\ \E old \in before, row \in after :
                          /\ after = {row}
                          /\ row.id = old.id
                          /\ row.is_positive = v
                          /\ call.value = Some(row)
                    /\ get_like_status(likes, u, a) = Some(v)

\* A vote was created, changed and then deleted by three calls.
ToggleLikeStateMachineWitness ==
    /\ service_calls = 3
    /\ call.op = "toggle_like" /\ call.value = None
    /\ \E row \in call.likes_before :
          row.user_id = call.user_id /\ row.frarticle_id = call.frarticle_id
          /\ row.is_positive = call.is_positive
    /\ likes = {}

\* C17: there is at most one Like row per (user, article), and the counts
\* of an article are the numbers of users whose status for it is True and
\* whose status is False.
LikeCountsMatch ==
    /\ \A x, y \in likes :
          (x.user_id = y.user_id /\ x.frarticle_id = y.frarticle_id) => x = y
    /\ \A a \in ArticleIds :
          LET counts == get_article_like_counts(likes, a)
          IN  /\ counts.likes =
                    Cardinality({u \in Users : get_like_status(likes, u, a) = Some(TRUE)})
              /\ counts.dislikes =
                    Cardinality({u \in Users : get_like_status(likes, u, a) = Some(FALSE)})

\* One article has a like and a dislike, by two users, and the other article
\* has a vote as well.
LikeCountsMatchWitness ==
    /\ get_article_like_counts(likes, 1) = [likes |-> 1, dislikes |-> 1]
    /\ get_article_like_counts(likes, 2).likes + get_article_like_counts(likes, 2).dislikes = 1

\* C18: the first toggle_bookmark of a (user, article) creates a row that is
\* kept, with its id, by every later call; after k toggles in a row
\* get_bookmark_status is True exactly when k is odd; get_user_bookmarks
\* lists the article exactly when get_bookmark_status is True.
BookmarkToggleParity ==
    \A u \in Users, a \in FRArticles :
        LET t      == toggles[<<u, a>>]
            listed == get_user_bookmarks(bookmarks, u, FALSE)
        IN  /\ t.k > 0 => \E row \in bookmarks :
                              row.id = t.id /\ row.user_id = u /\ row.frarticle_id = a
            /\ t.k = 0 => ~ \E row \in bookmarks : row.user_id = u /\ row.frarticle_id = a
            /\ ~ t.broken => (get_bookmark_status(bookmarks, u, a) <=> t.k % 2 = 1)
            /\ (\E k \in 1..Len(listed) : listed[k].frarticle_id = a)
                  <=> get_bookmark_status(bookmarks, u, a)

\* A user toggled one article three times and it is listed.
BookmarkToggleParityWitness ==
    \E u \in Users, a \in FRArticles :
        /\ toggles[<<u, a>>].k = 3 /\ ~ toggles[<<u, a>>].broken
        /\ get_bookmark_status(bookmarks, u, a)
        /\ Len(get_user_bookmarks(bookmarks, u, FALSE)) = 1

\* C19: toggle_like and toggle_bookmark called with the id of no article
\* raise ValueError and leave both tables as they were.
MissingArticleRejected ==
    (call.op \in {"toggle_like", "toggle_bookmark"} /\ call.frarticle_id \notin FRArticles)
    => /\ call.raised = "ValueError"
       /\ likes = call.likes_before
       /\ bookmarks = call.bookmarks_before

\* toggle_bookmark was called with the id of no article on tables that hold
\* rows.
MissingArticleRejectedWitness ==
    /\ call.op = "toggle_bookmark" /\ call.frarticle_id \notin FRArticles
    /\ call.raised = "ValueError"
    /\ likes # {} /\ bookmarks # {}

\* The callbacks that were let past the state check with `state`, answered
\* or still being handled.
Accepted(state) ==
    Cardinality({k \in 1..Len(oauth_log) :
                    oauth_log[k].state = state /\ oauth_log[k].accepted})
        + Cardinality({h \in Handlers :
                          callbacks[h].pc = "exchange" /\ callbacks[h].state = state})

\* C20: a state is accepted by at most one callback, also when a second
\* callback arrives while the first is awaiting the code exchange, and a
\* state that was never issued is accepted by none.
OAuthStateSingleUse ==
    /\ \A state \in 1..MaxStates : Accepted(state) <= 1
    /\ \A k \in 1..Len(oauth_log) :
          oauth_log[k].accepted => \E i \in issued : i.state = oauth_log[k].state
    /\ \A h \in Handlers :
          callbacks[h].pc = "exchange" => \E i \in issued : i.state = callbacks[h].state

\* C21: get_user_from_token raises TokenExpiredError for every validly signed
\* token whose expiry time has passed, cached by an earlier call or not, and
\* returns a user only for a validly signed, unexpired token whose sub is the
\* id of an existing active user.
ExpiredTokenRejected ==
    token_call.op = "get_user_from_token" =>
        /\ (token_call.token.signed /\ token_call.token.exp < token_call.at)
              => token_call.raised = "TokenExpiredError"
        /\ token_call.user # None =>
              /\ token_call.raised = "none"
              /\ token_call.token.signed
              /\ ~ (token_call.token.exp < token_call.at)
              /\ ParseInt(token_call.token.sub) = Some(token_call.user[1].id)
              /\ token_call.user[1] \in AuthUsers
              /\ token_call.user[1].is_active

\* The flushes of a finished call that raised.
FailedFlushes(e) == {k \in 1..Len(e.flushes) : ~ e.flushes[k].ok}

\* C22: a persistence failure during any flush of a run, the threshold flush
\* inside the item loop as well as the final flush, is fatal to the run: it
\* is the last thing the run attempts (no later document is handled, so no
\* second flush fails and no document is counted as an error when every
\* document is sound), the run ends in the fatal handler, and the failure is
\* not counted as a per-item error.
FlushFailureIsFatal ==
    \A k \in 1..Len(log) :
        LET e == log[k]
        IN  (FailedFlushes(e) # {} /\ Faulty(e.documents) = {})
              => /\ e.fatal
                 /\ FailedFlushes(e) = {Len(e.flushes)}
                 /\ e.error_count = 0
                 /\ e.processed_count + e.skipped_count <= Len(e.documents)

\* The number of records the successful flushes of a call committed.
RECURSIVE CommittedCount(_)
CommittedCount(flushes) ==
    IF flushes = <<>> THEN 0
    ELSE (IF Head(flushes).ok THEN Head(flushes).n ELSE 0) + CommittedCount(Tail(flushes))

\* C23: partial progress survives.  When a call is over, also one that a
\* later document or a later flush failed and that went through the rollback
\* of the fatal handler, the tables hold what they held before the call and
\* the records of every flush that had committed: the first documents of the
\* list, as many as those flushes wrote.
PartialProgressSurvives ==
    \A e \in Entries :
        Faulty(e.documents) = {} /\ NoneStored(e) /\ Distinct(e.documents)
        => LET n == CommittedCount(e.flushes)
           IN  /\ e.fed_before \subseteq e.fed_after
               /\ e.art_before \subseteq e.art_after
               /\ Cardinality(e.fed_after) = Cardinality(e.fed_before) + n
               /\ Cardinality(e.art_after) = Cardinality(e.art_before) + n
               /\ \A j \in 1..n :
                     /\ \E row \in e.fed_after :
                           row.document_number = e.documents[j].document_number
                     /\ \E row \in e.art_after :
                           row.source_url = e.documents[j].html_url

PartialProgressSurvivesWitness ==
    \E e \in Entries :
        /\ e.fatal
        /\ FailedFlushes(e) # {}
        /\ CommittedCount(e.flushes) >= BATCH_SIZE
        /\ Cardinality(e.fed_after) >= BATCH_SIZE
        /\ Len(e.documents) > BATCH_SIZE

\* C24: _insert_batch does not drop data.  When it raises, both pending lists
\* hold what they held before the call; the lists are cleared only by a call
\* that committed, which stored a row for every pending entry; and a call with
\* an empty list of entries returns without raising and leaves the tables and
\* the lists as they were.
NoDropOnFailure ==
    batch_call.pc = "done" =>
        LET c == batch_call
            committed ==
                /\ ~ c.raised
                /\ \A k \in 1..Len(c.fed) :
                      \E row \in federal_register_entries \ c.fed_before :
                          row.document_number = c.fed[k].document_number
                /\ \A k \in 1..Len(c.art) :
                      \E row \in articles \ c.art_before :
                          row.source_url = c.art[k].source_url
        IN  /\ c.raised =>
                  /\ c.fed_after = c.fed /\ c.art_after = c.art
                  /\ federal_register_entries = c.fed_before /\ articles = c.art_before
            /\ (c.fed # <<>> /\ ~ c.raised) =>
                  c.fed_after = <<>> /\ c.art_after = <<>> /\ committed
            /\ (c.fed # <<>> /\ c.fed_after = <<>>) => committed
            /\ c.fed = <<>> =>
                  /\ ~ c.raised
                  /\ c.fed_after = c.fed /\ c.art_after = c.art
                  /\ federal_register_entries = c.fed_before /\ articles = c.art_before

NoDropOnFailureWitness ==
    /\ batch_call.pc = "done"
    /\ batch_call.raised
    /\ ~ batch_call.sess_bad
    /\ batch_call.env_ok
    /\ Len(batch_call.fed_after) = MaxPending
    /\ batch_call.art_after # <<>>

\* A call with an empty list of entries, on a session that needs a rollback.
NoDropOnFailureEmptyWitness ==
    /\ batch_call.pc = "done"
    /\ batch_call.fed = <<>>
    /\ batch_call.sess_bad
    /\ federal_register_entries # {}

\* C25: the pending batch is bounded.  At every point of a run the pending
\* list holds at most BATCH_SIZE entries, and fewer than BATCH_SIZE whenever
\* the item loop is about to start a document.
BoundedPending ==
    \A r \in Runs :
        /\ Len(run[r].new_fed_entries) <= BATCH_SIZE
        /\ (run[r].pc = "loop" /\ run[r].i <= Len(run[r].documents))
              => Len(run[r].new_fed_entries) < BATCH_SIZE

\* The time-to-live of a state in the store of the router.
StateTtl(router) == IF router = "oauth" THEN OAUTH_STATES_MAX_AGE ELSE OAUTH_STATE_CACHE_TTL

\* C26: OAuth state expiry.  A callback passes the state check only with a
\* state its router issued less than the time-to-live ago (600 s for the
\* _oauth_states store, 300 s for the TTL cache), whether or not a login
\* request was made in between.  A state of the _oauth_states store that is
\* exactly 600 s old, which its cleanup keeps, counts as not yet expired.
OAuthStateExpiry ==
    [][\A h \in Handlers :
          (callbacks[h].pc = "idle" /\ callbacks'[h].pc = "exchange")
          => \E i \in issued :
                /\ i.state = callbacks'[h].state
                /\ i.router = callbacks'[h].router
                /\ \/ now - i.at < StateTtl(i.router)
                   \/ i.router = "oauth" /\ now - i.at = StateTtl(i.router)]_vars

\* C27: entry/article pairing.  Every stored article references the stored
\* FederalRegister entry that was built from the document the article was
\* built from, and every stored entry is referenced by exactly one article.
EntryArticlePairing ==
    /\ \A a \in articles :
          \E f \in federal_register_entries :
              /\ f.id = a.federal_register_id
              /\ f.raw_data.html_url = a.source_url
    /\ \A f \in federal_register_entries :
          Cardinality({a \in articles : a.federal_register_id = f.id}) = 1

\* C28: counter conservation.  When the item loop has gone through the list,
\* processed_count + skipped_count + error_count is the number of fetched
\* documents; and a run that ends without a fatal error has persisted
\* processed_count articles.
CounterConservation ==
    /\ \A r \in Runs :
          (run[r].pc = "loop" /\ run[r].i > Len(run[r].documents))
          => run[r].processed_count + run[r].skipped_count + run[r].error_count
                = Len(run[r].documents)
    /\ \A e \in Entries :
          (~ e.fatal /\ ~ e.overlapped)
          => e.processed_count = Cardinality(e.art_after \ e.art_before)

\* The documents of the list that repeat an earlier one: same document_number
\* or same html_url.
Repeats(docs) ==
    {k \in 1..Len(docs) :
        \E j \in 1..(k - 1) : \/ docs[j].document_number = docs[k].document_number
                              \/ docs[j].html_url = docs[k].html_url}

\* C29: duplicates inside one fetched list.  A run of its own over sound,
\* unstored documents some of which repeat an earlier one persists each
\* document that repeats none, counts each repetition as skipped, counts no
\* error, has no failed flush and does not end in the fatal handler.
DuplicatesInListSkipped ==
    \A e \in Entries :
        (/\ ~ e.overlapped /\ ~ e.env_failed
         /\ Faulty(e.documents) = {} /\ NoneStored(e)
         /\ Repeats(e.documents) # {})
        => /\ e.error_count = 0
           /\ FailedFlushes(e) = {}
           /\ ~ e.fatal
           /\ e.skipped_count = Cardinality(Repeats(e.documents))
           /\ \A k \in (1..Len(e.documents)) \ Repeats(e.documents) :
                 /\ \E row \in e.fed_after :
                       row.document_number = e.documents[k].document_number
                 /\ \E row \in e.art_after : row.source_url = e.documents[k].html_url

Increasing(seq) == \A j, k \in 1..Len(seq) : j < k => seq[j] < seq[k]

Range(seq) == {seq[k] : k \in 1..Len(seq)}

\* The documents of the list that had a record when the run began.
StoredBefore(e) ==
    {k \in 1..Len(e.documents) :
        \/ \E row \in e.fed_before : row.document_number = e.documents[k].document_number
        \/ \E row \in e.art_before : row.source_url = e.documents[k].html_url}

\* C30: summarize only what is new.  In a run the summarizer is called at
\* most once per fetched document and in the order of the list, never for a
\* document that had a record when it was checked, never for a document
\* counted as skipped; and the loop moves through the list one document at a
\* time.
SummarizeOnlyNew ==
    /\ \A e \in Entries :
          /\ Increasing(e.summarized) /\ Increasing(e.skipped)
          /\ Range(e.summarized) \subseteq 1..Len(e.documents)
          /\ Range(e.summarized) \cap Range(e.skipped) = {}
          /\ Range(e.summarized) \cap StoredBefore(e) = {}
          /\ Len(e.skipped) = e.skipped_count
    /\ \A r \in Runs :
          /\ \A k \in Range(run[r].summarized) \cup Range(run[r].skipped) : k < run[r].i
          /\ Increasing(run[r].summarized)

\* A run skipped its first document, which was stored, and summarized its
\* second.
SummarizeOnlyNewWitness ==
    \E e \in Entries :
        /\ e.skipped = <<1>>
        /\ e.summarized = <<2>>
        /\ StoredBefore(e) = {1}

====
